---- MODULE Spec2Model ----
(***************************************************************************)
(* Model of the Smart Predictive Ride Pooling (SPR) manager,               *)
(* src/spr-pool-manager.js: the pool collection persisted under one        *)
(* localStorage key and the operations of SPR_POOL_MANAGER on it, and of   *)
(* the booking form's submit handler in script.js (src/unnamed/part_000).  *)
(***************************************************************************)
EXTENDS Integers, Sequences, FiniteSets, TLC

VARIABLES
    storage,            \* localStorage[STORAGE_KEY]: <<>> when the key is absent, <<pools>> when set
    now,                \* the wall clock, Date.now()
    highDemandEvents,   \* the calendar built when the module is loaded
    currentUser,        \* the simulated user of the running session
    form,               \* the values of the booking form's input fields
    lastResult,         \* what the last operation returned
    steps               \* number of manager operations called so far

vars == <<storage, now, highDemandEvents, currentUser, form, lastResult, steps>>

----------------------------------------------------------------------------
(* Bounds of the model *)

\* Length of the runs explored: every step (an operation, a clock tick, a page load,
\* a change of session) counts.
MaxSteps == 6

\* Clock ticks per calendar day.
TicksPerDay == 2

----------------------------------------------------------------------------
(* Values *)

Null == "null"
Undefined == "undefined"

Student123 == [userId |-> "student123", name |-> "Priya S."]

\* The users whose sessions share the persisted collection.
Users ==
    { Student123,
      [userId |-> "student124", name |-> "Arjun R."],
      [userId |-> "student125", name |-> "Meena K."],
      [userId |-> "student126", name |-> "Ravi T."],
      [userId |-> "student127", name |-> "Divya P."] }

currentDriver == [driverId |-> "driver007", name |-> "Suresh K."]

Capacity == 4
PricePerHead == 50
DepartureHour == 18

PredictiveDestination == "Tirupati Railway Station"

MsgNotFound == "Pool not found!"
MsgFull == "Sorry, this pool is already full."
MsgAlreadyJoined == "You have already joined this pool."
MsgJoined == "Joined the pool!"
MsgNotAMember == "You are not in this pool."
MsgExited == "Pool exited."
MsgAlreadyAccepted == "This pool has already been accepted."
MsgCreated == "Pool created"
MsgGenerated == "High-demand day detected! Generating a predictive pool."

MsgJoinConfirmed(destination) ==
    "Pool to " \o destination \o " is now full and confirmed! Your ride is scheduled."

MsgDriverAccepted(destination) ==
    "You have accepted the pool to " \o destination \o ". You will be notified when it's full."

MsgDriverConfirmed(destination) ==
    "Pool to " \o destination \o " is now confirmed! The ride is ready."

----------------------------------------------------------------------------
(* Clock and calendar *)

DayOf(t) == t \div TicksPerDay

\* `${month}-${date}` of the day a timestamp falls on (days counted from 1 January).
DateKey(t) == <<1, DayOf(t) + 1>>

\* 'pool-' + Date.now()
NewPoolId(t) == <<"pool-", t>>

\* An id no stored pool has (a pool that was deleted, a mistyped id).
StalePoolId == <<"pool-", -1>>

\* The ids a caller can pass: those of the stored pools, or a stale one.
PoolIdInputs(pools) == { pools[i].poolId : i \in 1..Len(pools) } \cup { StalePoolId }

\* The forms a student can submit to createPool.
PoolDataSet ==
    { [destination |-> PredictiveDestination, pickupLocation |-> "MBU Campus",
       departureTime |-> [day |-> 0, hour |-> 9]],
      [destination |-> "Renigunta Airport", pickupLocation |-> "Hostel Gate",
       departureTime |-> [day |-> 0, hour |-> 9]] }

----------------------------------------------------------------------------
(* Storage *)

getPoolsFromStorage == IF storage = <<>> THEN <<>> ELSE storage[1]

savePoolsToStorage(pools) == <<pools>>

\* Array.prototype.findIndex on poolId, 1-based; 0 when there is no match.
FindPool(pools, poolId) ==
    IF \E i \in 1..Len(pools) : pools[i].poolId = poolId
    THEN CHOOSE i \in 1..Len(pools) :
            /\ pools[i].poolId = poolId
            /\ \A j \in 1..(i - 1) : pools[j].poolId # poolId
    ELSE 0

\* Array.prototype.findIndex on userId in a passenger list, 1-based; 0 when absent.
FindPassenger(passengers, userId) ==
    IF \E i \in 1..Len(passengers) : passengers[i].userId = userId
    THEN CHOOSE i \in 1..Len(passengers) :
            /\ passengers[i].userId = userId
            /\ \A j \in 1..(i - 1) : passengers[j].userId # userId
    ELSE 0

\* Array.prototype.splice(i, 1)
RemoveAt(s, i) == [k \in 1..(Len(s) - 1) |-> IF k < i THEN s[k] ELSE s[k + 1]]

\* What a call of an operation does: the collection it leaves in memory, whether it
\* saved it, the { success, message } object it returned and what it logged.
Outcome(pools, saved, success, message) ==
    [pools |-> pools, saved |-> saved,
     returned |-> <<[success |-> success, message |-> message]>>, logged |-> <<>>]

\* The same for a function that returns nothing.
OutcomeVoid(pools, saved, logged) ==
    [pools |-> pools, saved |-> saved, returned |-> <<>>, logged |-> logged]

----------------------------------------------------------------------------
(* The operations, as functions of the loaded collection *)

\* generatePredictivePools without the check for an existing pending pool.
generatePredictivePools_NoExistsCheck(pools, t, events) ==
    IF DateKey(t) \in DOMAIN events
    THEN OutcomeVoid(Append(pools, [poolId |-> NewPoolId(t),
                                destination |-> PredictiveDestination,
                                pickupLocation |-> "MBU Campus",
                                departureTime |-> [day |-> DayOf(t), hour |-> DepartureHour],
                                capacity |-> Capacity,
                                passengers |-> <<>>,
                                pricePerHead |-> PricePerHead,
                                status |-> "PENDING",
                                driverId |-> Null,
                                driverName |-> Null,
                                createdBy |-> Undefined]),
                 TRUE, <<MsgGenerated>>)
    ELSE OutcomeVoid(pools, FALSE, <<>>)

generatePredictivePools(pools, t, events) ==
    IF DateKey(t) \in DOMAIN events
    THEN LET destination == PredictiveDestination
             poolExists == \E i \in 1..Len(pools) :
                              /\ pools[i].destination = destination
                              /\ pools[i].status = "PENDING"
             newPool == [poolId |-> NewPoolId(t),
                         destination |-> destination,
                         pickupLocation |-> "MBU Campus",
                         departureTime |-> [day |-> DayOf(t), hour |-> DepartureHour],
                         capacity |-> Capacity,
                         passengers |-> <<>>,
                         pricePerHead |-> PricePerHead,
                         status |-> "PENDING",
                         driverId |-> Null,
                         driverName |-> Null,
                         createdBy |-> Undefined]
         IN  IF ~poolExists
             THEN OutcomeVoid(Append(pools, newPool), TRUE, <<MsgGenerated>>)
             ELSE OutcomeVoid(pools, FALSE, <<>>)
    ELSE OutcomeVoid(pools, FALSE, <<>>)


\* createPool that stores the new pool in front of the existing ones.
createPool_Unshift(pools, poolData, t, user) ==
    LET newPool == [poolId |-> NewPoolId(t),
                    destination |-> poolData.destination,
                    pickupLocation |-> poolData.pickupLocation,
                    departureTime |-> poolData.departureTime,
                    capacity |-> Capacity,
                    passengers |-> <<>>,
                    pricePerHead |-> PricePerHead,
                    status |-> "PENDING",
                    driverId |-> Null,
                    driverName |-> Null,
                    createdBy |-> user.userId]
    IN  Outcome(<<newPool>> \o pools, TRUE, TRUE, MsgCreated)

createPool(pools, poolData, t, user) ==
    LET newPool == [poolId |-> NewPoolId(t),
                    destination |-> poolData.destination,
                    pickupLocation |-> poolData.pickupLocation,
                    departureTime |-> poolData.departureTime,
                    capacity |-> Capacity,
                    passengers |-> <<>>,
                    pricePerHead |-> PricePerHead,
                    status |-> "PENDING",
                    driverId |-> Null,
                    driverName |-> Null,
                    createdBy |-> user.userId]
    IN  Outcome(Append(pools, newPool), TRUE, TRUE, MsgCreated)

\* joinPool that never promotes the pool to CONFIRMED.
joinPool_NeverConfirms(pools, poolId, user) ==
    LET i == FindPool(pools, poolId) IN
    IF i = 0 THEN Outcome(pools, FALSE, FALSE, MsgNotFound)
    ELSE IF Len(pools[i].passengers) >= pools[i].capacity
         THEN Outcome(pools, FALSE, FALSE, MsgFull)
    ELSE IF FindPassenger(pools[i].passengers, user.userId) # 0
         THEN Outcome(pools, FALSE, FALSE, MsgAlreadyJoined)
    ELSE Outcome([pools EXCEPT ![i].passengers = Append(@, user)], TRUE, TRUE, MsgJoined)

\* joinPool whose capacity test is > instead of >=.
joinPool_OffByOne(pools, poolId, user) ==
    LET i == FindPool(pools, poolId) IN
    IF i = 0 THEN Outcome(pools, FALSE, FALSE, MsgNotFound)
    ELSE IF Len(pools[i].passengers) > pools[i].capacity
         THEN Outcome(pools, FALSE, FALSE, MsgFull)
    ELSE IF FindPassenger(pools[i].passengers, user.userId) # 0
         THEN Outcome(pools, FALSE, FALSE, MsgAlreadyJoined)
    ELSE LET passengers == Append(pools[i].passengers, user)
             confirm == Len(passengers) = pools[i].capacity /\ pools[i].driverId # Null
             pool == [pools[i] EXCEPT !.passengers = passengers,
                                      !.status = IF confirm THEN "CONFIRMED" ELSE @]
         IN  Outcome([pools EXCEPT ![i] = pool], TRUE, TRUE,
                     IF confirm THEN MsgJoinConfirmed(pool.destination) ELSE MsgJoined)

\* joinPool without the test for a user who is already a passenger.
joinPool_NoMemberCheck(pools, poolId, user) ==
    LET i == FindPool(pools, poolId) IN
    IF i = 0 THEN Outcome(pools, FALSE, FALSE, MsgNotFound)
    ELSE IF Len(pools[i].passengers) >= pools[i].capacity
         THEN Outcome(pools, FALSE, FALSE, MsgFull)
    ELSE LET passengers == Append(pools[i].passengers, user)
             confirm == Len(passengers) = pools[i].capacity /\ pools[i].driverId # Null
             pool == [pools[i] EXCEPT !.passengers = passengers,
                                      !.status = IF confirm THEN "CONFIRMED" ELSE @]
         IN  Outcome([pools EXCEPT ![i] = pool], TRUE, TRUE,
                     IF confirm THEN MsgJoinConfirmed(pool.destination) ELSE MsgJoined)


\* joinPool that confirms a pool with a driver one passenger early.
joinPool_ConfirmsEarly(pools, poolId, user) ==
    LET i == FindPool(pools, poolId) IN
    IF i = 0 THEN Outcome(pools, FALSE, FALSE, MsgNotFound)
    ELSE IF Len(pools[i].passengers) >= pools[i].capacity
         THEN Outcome(pools, FALSE, FALSE, MsgFull)
    ELSE IF FindPassenger(pools[i].passengers, user.userId) # 0
         THEN Outcome(pools, FALSE, FALSE, MsgAlreadyJoined)
    ELSE LET passengers == Append(pools[i].passengers, user)
             confirm == Len(passengers) >= pools[i].capacity - 1 /\ pools[i].driverId # Null
             pool == [pools[i] EXCEPT !.passengers = passengers,
                                      !.status = IF confirm THEN "CONFIRMED" ELSE @]
         IN  Outcome([pools EXCEPT ![i] = pool], TRUE, TRUE,
                     IF confirm THEN MsgJoinConfirmed(pool.destination) ELSE MsgJoined)

joinPool(pools, poolId, user) ==
    LET i == FindPool(pools, poolId) IN
    IF i = 0 THEN Outcome(pools, FALSE, FALSE, MsgNotFound)
    ELSE IF Len(pools[i].passengers) >= pools[i].capacity
         THEN Outcome(pools, FALSE, FALSE, MsgFull)
    ELSE IF FindPassenger(pools[i].passengers, user.userId) # 0
         THEN Outcome(pools, FALSE, FALSE, MsgAlreadyJoined)
    ELSE LET passengers == Append(pools[i].passengers, user)
             confirm == Len(passengers) = pools[i].capacity /\ pools[i].driverId # Null
             pool == [pools[i] EXCEPT !.passengers = passengers,
                                      !.status = IF confirm THEN "CONFIRMED" ELSE @]
         IN  Outcome([pools EXCEPT ![i] = pool], TRUE, TRUE,
                     IF confirm THEN MsgJoinConfirmed(pool.destination) ELSE MsgJoined)

\* exitPool that keeps a pool whose last passenger left.
exitPool_KeepsEmpty(pools, poolId, user) ==
    LET poolIndex == FindPool(pools, poolId) IN
    IF poolIndex = 0 THEN Outcome(pools, FALSE, FALSE, MsgNotFound)
    ELSE LET passengerIndex == FindPassenger(pools[poolIndex].passengers, user.userId) IN
         IF passengerIndex = 0 THEN Outcome(pools, FALSE, FALSE, MsgNotAMember)
         ELSE LET passengers == RemoveAt(pools[poolIndex].passengers, passengerIndex)
                  pool == [pools[poolIndex] EXCEPT
                              !.passengers = passengers,
                              !.status = IF @ = "CONFIRMED" THEN "ACCEPTED" ELSE @]
              IN  IF FALSE
                  THEN Outcome(RemoveAt(pools, poolIndex), TRUE, TRUE, MsgExited)
                  ELSE Outcome([pools EXCEPT ![poolIndex] = pool], TRUE, TRUE, MsgExited)

\* exitPool without the test that the user is a passenger.
exitPool_NoMemberCheck(pools, poolId, user) ==
    LET poolIndex == FindPool(pools, poolId) IN
    IF poolIndex = 0 THEN Outcome(pools, FALSE, FALSE, MsgNotFound)
    ELSE LET passengerIndex == FindPassenger(pools[poolIndex].passengers, user.userId) IN
         \* splice(-1, 1) removes the last element
         LET removeIndex == IF passengerIndex = 0 THEN Len(pools[poolIndex].passengers)
                                                  ELSE passengerIndex IN
         IF removeIndex = 0 THEN Outcome(pools, TRUE, TRUE, MsgExited)
         ELSE LET passengers == RemoveAt(pools[poolIndex].passengers, removeIndex)
                  pool == [pools[poolIndex] EXCEPT
                              !.passengers = passengers,
                              !.status = IF @ = "CONFIRMED" THEN "ACCEPTED" ELSE @]
              IN  IF Len(passengers) = 0
                  THEN Outcome(RemoveAt(pools, poolIndex), TRUE, TRUE, MsgExited)
                  ELSE Outcome([pools EXCEPT ![poolIndex] = pool], TRUE, TRUE, MsgExited)

\* exitPool that deletes an emptied pool only when no driver is assigned.
exitPool_KeepsIfDriver(pools, poolId, user) ==
    LET poolIndex == FindPool(pools, poolId) IN
    IF poolIndex = 0 THEN Outcome(pools, FALSE, FALSE, MsgNotFound)
    ELSE LET passengerIndex == FindPassenger(pools[poolIndex].passengers, user.userId) IN
         IF passengerIndex = 0 THEN Outcome(pools, FALSE, FALSE, MsgNotAMember)
         ELSE LET passengers == RemoveAt(pools[poolIndex].passengers, passengerIndex)
                  pool == [pools[poolIndex] EXCEPT
                              !.passengers = passengers,
                              !.status = IF @ = "CONFIRMED" THEN "ACCEPTED" ELSE @]
              IN  IF Len(passengers) = 0 /\ pools[poolIndex].driverId = Null
                  THEN Outcome(RemoveAt(pools, poolIndex), TRUE, TRUE, MsgExited)
                  ELSE Outcome([pools EXCEPT ![poolIndex] = pool], TRUE, TRUE, MsgExited)

\* exitPool that leaves a CONFIRMED pool CONFIRMED.
exitPool_NoDemote(pools, poolId, user) ==
    LET poolIndex == FindPool(pools, poolId) IN
    IF poolIndex = 0 THEN Outcome(pools, FALSE, FALSE, MsgNotFound)
    ELSE LET passengerIndex == FindPassenger(pools[poolIndex].passengers, user.userId) IN
         IF passengerIndex = 0 THEN Outcome(pools, FALSE, FALSE, MsgNotAMember)
         ELSE LET passengers == RemoveAt(pools[poolIndex].passengers, passengerIndex)
                  pool == [pools[poolIndex] EXCEPT
                              !.passengers = passengers,
                              !.status = @]
              IN  IF Len(passengers) = 0
                  THEN Outcome(RemoveAt(pools, poolIndex), TRUE, TRUE, MsgExited)
                  ELSE Outcome([pools EXCEPT ![poolIndex] = pool], TRUE, TRUE, MsgExited)


\* exitPool that sends a confirmed pool back to PENDING.
exitPool_DemotesToPending(pools, poolId, user) ==
    LET poolIndex == FindPool(pools, poolId) IN
    IF poolIndex = 0 THEN Outcome(pools, FALSE, FALSE, MsgNotFound)
    ELSE LET passengerIndex == FindPassenger(pools[poolIndex].passengers, user.userId) IN
         IF passengerIndex = 0 THEN Outcome(pools, FALSE, FALSE, MsgNotAMember)
         ELSE LET passengers == RemoveAt(pools[poolIndex].passengers, passengerIndex)
                  pool == [pools[poolIndex] EXCEPT
                              !.passengers = passengers,
                              !.status = IF @ = "CONFIRMED" THEN "PENDING" ELSE @]
              IN  IF Len(passengers) = 0
                  THEN Outcome(RemoveAt(pools, poolIndex), TRUE, TRUE, MsgExited)
                  ELSE Outcome([pools EXCEPT ![poolIndex] = pool], TRUE, TRUE, MsgExited)

exitPool(pools, poolId, user) ==
    LET poolIndex == FindPool(pools, poolId) IN
    IF poolIndex = 0 THEN Outcome(pools, FALSE, FALSE, MsgNotFound)
    ELSE LET passengerIndex == FindPassenger(pools[poolIndex].passengers, user.userId) IN
         IF passengerIndex = 0 THEN Outcome(pools, FALSE, FALSE, MsgNotAMember)
         ELSE LET passengers == RemoveAt(pools[poolIndex].passengers, passengerIndex)
                  pool == [pools[poolIndex] EXCEPT
                              !.passengers = passengers,
                              !.status = IF @ = "CONFIRMED" THEN "ACCEPTED" ELSE @]
              IN  IF Len(passengers) = 0
                  THEN Outcome(RemoveAt(pools, poolIndex), TRUE, TRUE, MsgExited)
                  ELSE Outcome([pools EXCEPT ![poolIndex] = pool], TRUE, TRUE, MsgExited)


\* assignDriver that never promotes a full pool to CONFIRMED.
assignDriver_AlwaysAccepted(pools, poolId, driver) ==
    LET i == FindPool(pools, poolId) IN
    IF i = 0 THEN Outcome(pools, FALSE, FALSE, MsgNotFound)
    ELSE IF pools[i].driverId # Null
         THEN Outcome(pools, FALSE, FALSE, MsgAlreadyAccepted)
    ELSE LET pool == [pools[i] EXCEPT !.driverId = driver.driverId,
                                      !.driverName = driver.name,
                                      !.status = "ACCEPTED"]
         IN  Outcome([pools EXCEPT ![i] = pool], TRUE, TRUE,
                     MsgDriverAccepted(pool.destination))


\* assignDriver without the check for an existing driver.
assignDriver_NoAcceptedCheck(pools, poolId, driver) ==
    LET i == FindPool(pools, poolId) IN
    IF i = 0 THEN Outcome(pools, FALSE, FALSE, MsgNotFound)
    ELSE LET full == Len(pools[i].passengers) = pools[i].capacity
             pool == [pools[i] EXCEPT !.driverId = driver.driverId,
                                      !.driverName = driver.name,
                                      !.status = IF full THEN "CONFIRMED" ELSE "ACCEPTED"]
         IN  Outcome([pools EXCEPT ![i] = pool], TRUE, TRUE,
                     IF full THEN MsgDriverConfirmed(pool.destination)
                             ELSE MsgDriverAccepted(pool.destination))


\* assignDriver that gives the driver to every pool carrying the id.
assignDriver_AllWithId(pools, poolId, driver) ==
    LET i == FindPool(pools, poolId) IN
    IF i = 0 THEN Outcome(pools, FALSE, FALSE, MsgNotFound)
    ELSE IF pools[i].driverId # Null
         THEN Outcome(pools, FALSE, FALSE, MsgAlreadyAccepted)
    ELSE LET full == Len(pools[i].passengers) = pools[i].capacity
             accept(p) == [p EXCEPT !.driverId = driver.driverId,
                                    !.driverName = driver.name,
                                    !.status = IF Len(p.passengers) = p.capacity
                                               THEN "CONFIRMED" ELSE "ACCEPTED"]
         IN  Outcome([j \in 1..Len(pools) |->
                         IF pools[j].poolId = poolId THEN accept(pools[j]) ELSE pools[j]],
                     TRUE, TRUE,
                     IF full THEN MsgDriverConfirmed(pools[i].destination)
                             ELSE MsgDriverAccepted(pools[i].destination))

assignDriver(pools, poolId, driver) ==
    LET i == FindPool(pools, poolId) IN
    IF i = 0 THEN Outcome(pools, FALSE, FALSE, MsgNotFound)
    ELSE IF pools[i].driverId # Null
         THEN Outcome(pools, FALSE, FALSE, MsgAlreadyAccepted)
    ELSE LET full == Len(pools[i].passengers) = pools[i].capacity
             pool == [pools[i] EXCEPT !.driverId = driver.driverId,
                                      !.driverName = driver.name,
                                      !.status = IF full THEN "CONFIRMED" ELSE "ACCEPTED"]
         IN  Outcome([pools EXCEPT ![i] = pool], TRUE, TRUE,
                     IF full THEN MsgDriverConfirmed(pool.destination)
                             ELSE MsgDriverAccepted(pool.destination))

----------------------------------------------------------------------------
(* State machine *)

\* The poolId recorded for a call that takes none.

\* Read-only queries of the public interface.
getCurrentUser == currentUser


\* Student listing without the status filter.
getAvailablePoolsForStudent_All(pools) ==
    SelectSeq(pools, LAMBDA p : TRUE)

getAvailablePoolsForStudent(pools) ==
    SelectSeq(pools, LAMBDA p : p.status \in {"PENDING", "ACCEPTED"})

getAvailablePoolsForDriver(pools) ==
    SelectSeq(pools, LAMBDA p : p.status = "PENDING" /\ p.driverId = Null)

\* Array.find: the first pool that lists the user, << >> for undefined.
getMyJoinedPool(pools, user) ==
    LET joined == SelectSeq(pools, LAMBDA p : FindPassenger(p.passengers, user.userId) # 0)
    IN  IF joined = <<>> THEN <<>> ELSE <<joined[1]>>


----------------------------------------------------------------------------
(* The booking form of the landing page *)

MsgValidation == "Please enter both pickup and drop locations"

\* The form as the page shows it first: every field empty.
EmptyForm == [pickup |-> "", dropoff |-> "", date |-> "", time |-> ""]

\* What a visitor can have typed into the fields.
Forms ==
    [pickup : {"", "Hostel Gate"}, dropoff : {"", "Renigunta Airport"},
     date : {"", "2025-01-01"}, time : {"", "09:00"}]

\* Submit handler that refuses the form only when both locations are missing.
bookingFormSubmit_BothMissing(fields) ==
    IF fields.pickup = "" /\ fields.dropoff = ""
    THEN [alerted |-> <<MsgValidation>>, proceeds |-> FALSE]
    ELSE [alerted |-> <<>>, proceeds |-> TRUE]

\* The visible part of the submit handler: the alert it raises and whether it goes
\* on past the validation.
bookingFormSubmit(fields) ==
    IF fields.pickup = "" \/ fields.dropoff = ""
    THEN [alerted |-> <<MsgValidation>>, proceeds |-> FALSE]
    ELSE [alerted |-> <<>>, proceeds |-> TRUE]

\* The rest of the handler, after the validation: the booking is handed to the
\* manager as a new pool from the pickup to the drop location.
forwardBooking(pools, fields, t, user) ==
    createPool(pools, [destination |-> fields.dropoff,
                       pickupLocation |-> fields.pickup,
                       departureTime |-> [day |-> 0, hour |-> 9]], t, user)

NoPoolId == <<>>

NoResult == [op |-> "none", poolId |-> NoPoolId, returned |-> <<>>, logged |-> <<>>]

\* Readers of a recorded result.
Succeeded(r) == r.returned # <<>> /\ r.returned[1].success
Failed(r) == r.returned # <<>> /\ ~r.returned[1].success
Message(r) == IF r.returned = <<>> THEN Undefined ELSE r.returned[1].message

\* A collection left by earlier sessions: at tick 0 student123 created a pool to the
\* airport, which student123 and two more students joined; no driver has accepted it.
SeededPools ==
    LET created == createPool(<<>>, [destination |-> "Renigunta Airport",
                                     pickupLocation |-> "Hostel Gate",
                                     departureTime |-> [day |-> 0, hour |-> 9]],
                              0, Student123).pools
        j1 == joinPool(created, NewPoolId(0), Student123).pools
        j2 == joinPool(j1, NewPoolId(0), [userId |-> "student124", name |-> "Arjun R."]).pools
    IN  joinPool(j2, NewPoolId(0), [userId |-> "student125", name |-> "Meena K."]).pools

\* The module loaded in a fresh browser: no stored key.
Init ==
    /\ storage = <<>>
    /\ now = 0
    /\ highDemandEvents = (DateKey(now) :> "Holiday Rush")
    /\ currentUser = Student123
    /\ form = EmptyForm
    /\ lastResult = NoResult
    /\ steps = 0

\* The module loaded in a fresh browser or, one tick later, over the collection that
\* earlier sessions have persisted.
InitUsers ==
    /\ \/ storage = <<>> /\ now = 0
       \/ storage = savePoolsToStorage(SeededPools) /\ now = 1
    /\ highDemandEvents = (DateKey(now) :> "Holiday Rush")
    /\ currentUser = Student123
    /\ form = EmptyForm
    /\ lastResult = NoResult
    /\ steps = 0

\* An operation ran: persist what it saved and record what it returned.
Return(op, poolId, r) ==
    /\ storage' = IF r.saved THEN savePoolsToStorage(r.pools) ELSE storage
    /\ lastResult' = [op |-> op, poolId |-> poolId, returned |-> r.returned, logged |-> r.logged]
    /\ steps' = steps + 1
    /\ UNCHANGED <<now, highDemandEvents, currentUser, form>>

\* A step that calls no operation of the manager.
NoCall ==
    /\ lastResult' = NoResult
    /\ steps' = steps + 1

\* init(): generatePredictivePools()
GeneratePredictivePools ==
    /\ steps < MaxSteps
    /\ Return("generatePredictivePools", NoPoolId,
              generatePredictivePools(getPoolsFromStorage, now, highDemandEvents))

CreatePool ==
    /\ steps < MaxSteps
    /\ \E poolData \in PoolDataSet :
          Return("createPool", NoPoolId, createPool(getPoolsFromStorage, poolData, now, currentUser))

JoinPool ==
    /\ steps < MaxSteps
    /\ \E poolId \in PoolIdInputs(getPoolsFromStorage) :
          Return("joinPool", poolId, joinPool(getPoolsFromStorage, poolId, currentUser))

ExitPool ==
    /\ steps < MaxSteps
    /\ \E poolId \in PoolIdInputs(getPoolsFromStorage) :
          Return("exitPool", poolId, exitPool(getPoolsFromStorage, poolId, currentUser))

AssignDriver ==
    /\ steps < MaxSteps
    /\ \E poolId \in PoolIdInputs(getPoolsFromStorage) :
          Return("assignDriver", poolId, assignDriver(getPoolsFromStorage, poolId, currentDriver))

\* Time passes.
Tick ==
    /\ steps < MaxSteps
    /\ now' = now + 1
    /\ NoCall
    /\ UNCHANGED <<storage, highDemandEvents, currentUser, form>>

\* A page load evaluates the module again: the session's user is the hardcoded one
\* again and the calendar is rebuilt for the day of the load.
LoadModule ==
    /\ steps < MaxSteps
    /\ currentUser' = Student123
    /\ highDemandEvents' = (DateKey(now) :> "Holiday Rush")
    /\ NoCall
    /\ UNCHANGED <<storage, now, form>>

\* Another user's session takes over the shared collection.
SwitchUser ==
    /\ steps < MaxSteps
    /\ \E u \in Users \ {currentUser} : currentUser' = u
    /\ NoCall
    /\ UNCHANGED <<storage, now, highDemandEvents, form>>


\* The visitor edits the fields of the booking form.
FillForm ==
    /\ steps < MaxSteps
    /\ \E fields \in Forms \ {form} : form' = fields
    /\ NoCall
    /\ UNCHANGED <<storage, now, highDemandEvents, currentUser>>

\* The booking form is submitted: the result records the alert raised, or what the
\* manager returned to the handler.
SubmitBooking ==
    /\ steps < MaxSteps
    /\ LET r == bookingFormSubmit(form) IN
       IF r.proceeds
       THEN Return("submitBooking", NoPoolId, forwardBooking(getPoolsFromStorage, form, now, currentUser))
       ELSE /\ lastResult' = [op |-> "submitBooking", poolId |-> NoPoolId,
                              returned |-> <<>>, logged |-> r.alerted]
            /\ steps' = steps + 1
            /\ UNCHANGED <<storage, now, highDemandEvents, currentUser, form>>

Next ==
    \/ GeneratePredictivePools
    \/ CreatePool
    \/ JoinPool
    \/ ExitPool
    \/ AssignDriver
    \/ Tick
    \/ LoadModule

\* The manager as written, with its one hardcoded current user, from an empty store.
Spec == Init /\ [][Next]_vars


NextPage == Next \/ FillForm \/ SubmitBooking

\* The landing page: the booking form next to the manager, from an empty store.
SpecPage == Init /\ [][NextPage]_vars

NextUsers == Next \/ SwitchUser

\* The manager serving the sessions of several users over one persisted collection.
SpecUsers == InitUsers /\ [][NextUsers]_vars

----------------------------------------------------------------------------
(* Properties *)

\* The persisted collection, as every operation loads it.
pools == getPoolsFromStorage

PoolIndexes == 1..Len(pools)

IsFull(pool) == Len(pool.passengers) = pool.capacity

IsPassenger(pool, user) == \E k \in 1..Len(pool.passengers) : pool.passengers[k].userId = user.userId

\* The pool an operation on poolId works on: the first stored pool with that id.
Target(poolId) == pools[FindPool(pools, poolId)]

HasTarget(poolId) == FindPool(pools, poolId) # 0

\* The ids of the stored pools without passengers, in storage order.
EmptyPools(ps) ==
    LET empty == SelectSeq(ps, LAMBDA p : Len(p.passengers) = 0)
    IN  [k \in 1..Len(empty) |-> empty[k].poolId]

PoolsTo(ps, destination) == { i \in 1..Len(ps) : ps[i].destination = destination }

\* C1: a pool's status is CONFIRMED if and only if it has a driver and its passenger
\* list has exactly capacity entries.
C1_ConfirmedIffDriverAndFull ==
    \A i \in PoolIndexes :
        (pools[i].status = "CONFIRMED") <=> (pools[i].driverId # Null /\ IsFull(pools[i]))

\* A join has filled the last seat of a pool that has a driver, and it is CONFIRMED.
C1_Witness ==
    /\ lastResult.op = "joinPool"
    /\ Succeeded(lastResult)
    /\ HasTarget(lastResult.poolId)
    /\ Target(lastResult.poolId).status = "CONFIRMED"
    /\ Len(Target(lastResult.poolId).passengers) = Capacity
    /\ Target(lastResult.poolId).driverId = currentDriver.driverId

\* C2: every stored pool has at most capacity passengers, after every operation.
C2_PassengersWithinCapacity ==
    \A i \in PoolIndexes : Len(pools[i].passengers) <= pools[i].capacity

\* A pool holds capacity passengers and a further join on it has just been refused.
C2_Witness ==
    /\ lastResult.op = "joinPool"
    /\ Failed(lastResult)
    /\ HasTarget(lastResult.poolId)
    /\ Len(Target(lastResult.poolId).passengers) = Capacity
    /\ Cardinality({ Target(lastResult.poolId).passengers[k].userId : k \in 1..Capacity }) = Capacity

\* C3 as stated: no stored pool has zero passengers.
C3_NoEmptyPoolStored ==
    \A i \in PoolIndexes : Len(pools[i].passengers) > 0

\* C3 amended: no step leaves a pool that had passengers stored without passengers.
\* The stored pools without passengers after a step are those there before it, less
\* the one that got its first passenger, plus the one createPool or
\* generatePredictivePools has just appended.
C3_EmptyOnlyAsCreated ==
    [][LET before == EmptyPools(pools)
           after == EmptyPools(pools')
       IN  \/ after = before
           \/ /\ lastResult'.op = "joinPool"
              /\ \E k \in 1..Len(before) : after = RemoveAt(before, k)
           \/ /\ lastResult'.op \in {"createPool", "generatePredictivePools"}
              /\ Len(pools') = Len(pools) + 1
              /\ after = Append(before, pools'[Len(pools')].poolId)]_vars

\* The last passenger of a pool has just exited and the pool is gone, while a pool
\* nobody has joined is still stored.
C3_Witness ==
    /\ lastResult.op = "exitPool"
    /\ Succeeded(lastResult)
    /\ ~HasTarget(lastResult.poolId)
    /\ \E i \in PoolIndexes : Len(pools[i].passengers) = 0

\* A predictive pool (one the generator made: it has no creator) for the current day
\* that still has a free seat.
IsActivePredictive(pool) ==
    /\ pool.createdBy = Undefined
    /\ pool.destination = PredictiveDestination
    /\ pool.departureTime.day = DayOf(now)
    /\ Len(pool.passengers) < pool.capacity

\* C4: at most one active (non-full) predictive pool to the mapped destination exists
\* for the current day.
C4_OneActivePredictivePool ==
    Cardinality({ i \in PoolIndexes : IsActivePredictive(pools[i]) }) <= 1

\* C5: on a day of the calendar, a run of generatePredictivePools on a collection
\* with no pool to the mapped destination leaves exactly one such pool, the predictive
\* one, and a second run right after the first leaves the collection unchanged.
C5_GenerateTwiceOnePool ==
    [][/\ ( /\ lastResult'.op = "generatePredictivePools"
            /\ DateKey(now) \in DOMAIN highDemandEvents
            /\ PoolsTo(pools, PredictiveDestination) = {} )
          => /\ PoolsTo(pools', PredictiveDestination) = { Len(pools') }
             /\ Len(pools') = Len(pools) + 1
             /\ pools'[Len(pools')].createdBy = Undefined
             /\ generatePredictivePools(pools', now', highDemandEvents').pools = pools'
       /\ ( /\ lastResult.op = "generatePredictivePools"
            /\ lastResult'.op = "generatePredictivePools" )
          => storage' = storage]_vars

\* The generator ran twice in a row from the empty store: the first run made the
\* predictive pool, the second made nothing, and one pool is stored.
C5_Witness ==
    /\ steps = 2
    /\ lastResult.op = "generatePredictivePools"
    /\ lastResult.logged = <<>>
    /\ Len(pools) = 1
    /\ pools[1].createdBy = Undefined
    /\ pools[1].destination = PredictiveDestination

\* C6: the stored pools have pairwise distinct poolId values.
C6_DistinctPoolIds ==
    \A i, j \in PoolIndexes : i # j => pools[i].poolId # pools[j].poolId

\* The step is a joinPool by a user who is a passenger of the pool it works on.
JoinByPassenger ==
    /\ lastResult'.op = "joinPool"
    /\ HasTarget(lastResult'.poolId)
    /\ IsPassenger(Target(lastResult'.poolId), currentUser)

NoDuplicatePassenger(ps) ==
    \A i \in 1..Len(ps) : \A k, l \in 1..Len(ps[i].passengers) :
        k # l => ps[i].passengers[k].userId # ps[i].passengers[l].userId

\* C7 as stated: joinPool by a user who is already a passenger of the pool returns
\* AlreadyJoined and changes nothing, and no userId is twice in a passenger list.
C7_RejoinIsAlreadyJoined ==
    [][/\ JoinByPassenger => /\ Failed(lastResult')
                             /\ Message(lastResult') = MsgAlreadyJoined
                             /\ storage' = storage
       /\ NoDuplicatePassenger(pools')]_vars

\* C7 amended: joinPool by a user who is already a passenger of the pool fails and
\* changes nothing; it returns AlreadyJoined when the pool has a free seat and Full
\* when the pool is at capacity. No userId is twice in a passenger list.
C7_RejoinFails ==
    [][/\ JoinByPassenger => /\ Failed(lastResult')
                             /\ Message(lastResult') =
                                    IF Len(Target(lastResult'.poolId).passengers)
                                          >= Target(lastResult'.poolId).capacity
                                    THEN MsgFull ELSE MsgAlreadyJoined
                             /\ storage' = storage
       /\ NoDuplicatePassenger(pools')]_vars

\* A passenger of a pool with a free seat has just tried to join it again.
C7_Witness ==
    /\ lastResult.op = "joinPool"
    /\ Message(lastResult) = MsgAlreadyJoined
    /\ HasTarget(lastResult.poolId)
    /\ IsPassenger(Target(lastResult.poolId), currentUser)
    /\ Len(Target(lastResult.poolId).passengers) < Capacity

\* C8: an operation whose precondition fails returns success = false with the message
\* of its failure (joinPool: NotFound, Full, AlreadyJoined in that order; exitPool:
\* NotFound, NotAMember; assignDriver: NotFound, AlreadyAccepted), and every failing
\* operation leaves the stored collection as it was.
C8_FailureChangesNothing ==
    [][LET r == lastResult'
           found == HasTarget(r.poolId)
           full == Len(Target(r.poolId).passengers) >= Target(r.poolId).capacity
           member == IsPassenger(Target(r.poolId), currentUser)
           Fails(message) == Failed(r) /\ Message(r) = message /\ storage' = storage
       IN  /\ r.op \in {"joinPool", "exitPool", "assignDriver"} /\ ~found
                => Fails(MsgNotFound)
           /\ r.op = "joinPool" /\ found /\ full => Fails(MsgFull)
           /\ r.op = "joinPool" /\ found /\ ~full /\ member => Fails(MsgAlreadyJoined)
           /\ r.op = "exitPool" /\ found /\ ~member => Fails(MsgNotAMember)
           /\ r.op = "assignDriver" /\ found /\ Target(r.poolId).driverId # Null
                => Fails(MsgAlreadyAccepted)
           /\ Failed(r) => storage' = storage]_vars

\* A user who is not a passenger has just been refused by a pool that is full.
C8_Witness ==
    /\ lastResult.op = "joinPool"
    /\ Failed(lastResult)
    /\ Message(lastResult) = MsgFull
    /\ HasTarget(lastResult.poolId)
    /\ Len(Target(lastResult.poolId).passengers) = Capacity
    /\ ~IsPassenger(Target(lastResult.poolId), currentUser)

\* C9: a successful exitPool by the only passenger of a pool removes that pool from
\* the collection, whatever its status and driver; the other pools remain as they are.
C9_LastExitDeletesPool ==
    [][( /\ lastResult'.op = "exitPool"
         /\ Succeeded(lastResult')
         /\ Len(Target(lastResult'.poolId).passengers) = 1 )
       => pools' = RemoveAt(pools, FindPool(pools, lastResult'.poolId))]_vars

\* The only passenger has just exited a pool and that pool is gone, another pool with
\* a driver and passengers being still stored.
C9_Witness ==
    /\ lastResult.op = "exitPool"
    /\ Succeeded(lastResult)
    /\ ~HasTarget(lastResult.poolId)
    /\ \E i \in PoolIndexes : pools[i].driverId # Null /\ Len(pools[i].passengers) > 0

\* C10: a successful exitPool on a CONFIRMED pool leaves the pool stored, at the same
\* place, with status ACCEPTED and the driver it had.
C10_ExitDemotesConfirmed ==
    [][( /\ lastResult'.op = "exitPool"
         /\ Succeeded(lastResult')
         /\ Target(lastResult'.poolId).status = "CONFIRMED" )
       => LET i == FindPool(pools, lastResult'.poolId) IN
          /\ Len(pools') = Len(pools)
          /\ pools'[i].poolId = pools[i].poolId
          /\ pools'[i].status = "ACCEPTED"
          /\ pools'[i].driverId = pools[i].driverId
          /\ pools'[i].driverName = pools[i].driverName
          /\ pools'[i].driverId = currentDriver.driverId]_vars

\* A passenger has just exited a pool that was full and had a driver: it is ACCEPTED
\* with one seat free.
C10_Witness ==
    /\ lastResult.op = "exitPool"
    /\ Succeeded(lastResult)
    /\ HasTarget(lastResult.poolId)
    /\ Target(lastResult.poolId).status = "ACCEPTED"
    /\ Target(lastResult.poolId).driverId = currentDriver.driverId
    /\ Len(Target(lastResult.poolId).passengers) = Capacity - 1
    /\ ~IsPassenger(Target(lastResult.poolId), currentUser)

\* C11: on a pool created by createPool and accepted by assignDriver, each successful
\* joinPool leaves the status ACCEPTED while a seat stays free, and the join of the
\* fourth distinct user leaves it CONFIRMED; a successful assignDriver on a pool with
\* a free seat leaves it ACCEPTED.
C11_FourthJoinConfirms ==
    [][/\ ( /\ lastResult'.op = "joinPool"
            /\ Succeeded(lastResult')
            /\ Target(lastResult'.poolId).driverId # Null )
          => LET i == FindPool(pools, lastResult'.poolId) IN
             /\ Len(pools'[i].passengers) = Len(pools[i].passengers) + 1
             /\ pools'[i].status = IF Len(pools'[i].passengers) = Capacity
                                   THEN "CONFIRMED" ELSE "ACCEPTED"
       /\ ( /\ lastResult'.op = "assignDriver"
            /\ Succeeded(lastResult')
            /\ Len(Target(lastResult'.poolId).passengers) < Capacity )
          => pools'[FindPool(pools, lastResult'.poolId)].status = "ACCEPTED"]_vars

\* The fourth of four distinct users has just joined a pool that a driver had
\* accepted, and the call reported the pool full and confirmed.
C11_Witness ==
    /\ lastResult.op = "joinPool"
    /\ HasTarget(lastResult.poolId)
    /\ Message(lastResult) = MsgJoinConfirmed(Target(lastResult.poolId).destination)
    /\ Target(lastResult.poolId).status = "CONFIRMED"
    /\ Cardinality({ Target(lastResult.poolId).passengers[k].userId :
                        k \in 1..Len(Target(lastResult.poolId).passengers) }) = Capacity
    /\ Target(lastResult.poolId).passengers[Capacity] = currentUser

\* C12: a pool's status is PENDING if and only if it has no driver, and an ACCEPTED
\* pool has a driver and at least one free seat.
C12_StatusMatchesDriver ==
    \A i \in PoolIndexes :
        /\ (pools[i].status = "PENDING") <=> (pools[i].driverId = Null)
        /\ pools[i].status = "ACCEPTED"
              => pools[i].driverId # Null /\ Len(pools[i].passengers) < pools[i].capacity

\* A driver has just accepted a full pool, which went from PENDING straight to
\* CONFIRMED, while another stored pool is PENDING without a driver.
C12_Witness ==
    /\ lastResult.op = "assignDriver"
    /\ Succeeded(lastResult)
    /\ HasTarget(lastResult.poolId)
    /\ Len(Target(lastResult.poolId).passengers) = Capacity
    /\ Target(lastResult.poolId).status = "CONFIRMED"
    /\ \E i \in PoolIndexes : pools[i].status = "PENDING" /\ pools[i].driverId = Null

\* C13: the current user is a passenger of at most one stored pool, so the pool
\* returned by getMyJoinedPool is the only pool that lists the user.
C13_AtMostOneJoinedPool ==
    /\ Cardinality({ i \in PoolIndexes : IsPassenger(pools[i], currentUser) }) <= 1
    /\ \A i \in PoolIndexes :
          IsPassenger(pools[i], currentUser)
             => getMyJoinedPool(pools, getCurrentUser) = <<pools[i]>>

\* The driver fields of the pools, in storage order.
Drivers(ps) == [i \in 1..Len(ps) |-> <<ps[i].driverId, ps[i].driverName>>]

\* C14: assignDriver on a pool that has a driver fails with AlreadyAccepted and
\* changes nothing; on a pool without a driver it sets the driver and leaves the
\* pool ACCEPTED, or CONFIRMED when the pool is at capacity; and no step changes or
\* clears the driver of a pool that stays stored.
C14_DriverSetOnce ==
    [][/\ ( lastResult'.op = "assignDriver" /\ HasTarget(lastResult'.poolId) )
          => LET i == FindPool(pools, lastResult'.poolId) IN
             IF pools[i].driverId # Null
             THEN /\ Failed(lastResult')
                  /\ Message(lastResult') = MsgAlreadyAccepted
                  /\ storage' = storage
             ELSE /\ Succeeded(lastResult')
                  /\ pools'[i].driverId = currentDriver.driverId
                  /\ pools'[i].driverName = currentDriver.name
                  /\ pools'[i].status = IF IsFull(pools[i]) THEN "CONFIRMED" ELSE "ACCEPTED"
       /\ \/ /\ Len(pools') >= Len(pools)
             /\ \A i \in PoolIndexes :
                   pools[i].driverId # Null => Drivers(pools')[i] = Drivers(pools)[i]
          \/ \E k \in PoolIndexes : Drivers(pools') = RemoveAt(Drivers(pools), k)]_vars

\* A second assignDriver on a pool that already has a driver has just been refused.
C14_Witness ==
    /\ lastResult.op = "assignDriver"
    /\ Failed(lastResult)
    /\ Message(lastResult) = MsgAlreadyAccepted
    /\ HasTarget(lastResult.poolId)
    /\ Target(lastResult.poolId).driverId = currentDriver.driverId

\* C15: createPool always returns success and appends exactly one pool with
\* capacity 4, price per head 50, status PENDING, no passengers and no driver; the
\* pools stored before are unchanged and keep their order.
C15_CreateAppendsOnePool ==
    [][lastResult'.op = "createPool"
          => /\ Succeeded(lastResult')
             /\ Len(pools') = Len(pools) + 1
             /\ SubSeq(pools', 1, Len(pools)) = pools
             /\ LET new == pools'[Len(pools')] IN
                /\ new.capacity = 4
                /\ new.pricePerHead = 50
                /\ new.status = "PENDING"
                /\ new.passengers = <<>>
                /\ new.driverId = Null
                /\ new.driverName = Null]_vars

\* createPool has just added a third pool behind a pool with passengers and a
\* driver and another pool.
C15_Witness ==
    /\ lastResult.op = "createPool"
    /\ Succeeded(lastResult)
    /\ Len(pools) >= 3
    /\ pools[Len(pools)].passengers = <<>>
    /\ pools[1].driverId # Null
    /\ pools[1].passengers # <<>>

\* C16: when the booking form is submitted with an empty pickup or an empty drop
\* location, the handler reports the validation error and stops: no operation of
\* the manager is called and the stored collection is unchanged.
C16_InvalidFormAborts ==
    [][( /\ lastResult'.op = "submitBooking"
         /\ form.pickup = "" \/ form.dropoff = "" )
          => /\ lastResult'.op = "submitBooking"
             /\ lastResult'.returned = <<>>
             /\ lastResult'.logged = <<MsgValidation>>
             /\ storage' = storage]_vars

\* A form with a pickup but no drop location has just been refused while a pool
\* is stored.
C16_Witness ==
    /\ lastResult.op = "submitBooking"
    /\ lastResult.logged = <<MsgValidation>>
    /\ form.pickup # ""
    /\ form.dropoff = ""
    /\ pools # <<>>

\* The statuses of the pools, in storage order.
Statuses(ps) == [i \in 1..Len(ps) |-> ps[i].status]

\* The status changes of one pool record that operation op may make.
StatusMove(before, after, op) ==
    \/ after.status = before.status
    \/ /\ before.status = "PENDING" /\ after.status = "ACCEPTED"
       /\ op = "assignDriver"
    \/ /\ before.status = "PENDING" /\ after.status = "CONFIRMED"
       /\ op = "assignDriver" /\ IsFull(before)
    \/ /\ before.status = "ACCEPTED" /\ after.status = "CONFIRMED"
       /\ op = "joinPool" /\ ~IsFull(before) /\ IsFull(after)
    \/ /\ before.status = "CONFIRMED" /\ after.status = "ACCEPTED"
       /\ op = "exitPool"

\* C17: the status of a stored pool changes only from PENDING to ACCEPTED
\* (assignDriver), from PENDING to CONFIRMED (assignDriver on a full pool), from
\* ACCEPTED to CONFIRMED (joinPool taking the last seat) and from CONFIRMED to
\* ACCEPTED (exitPool); a pool that has left PENDING never returns to it.
C17_StatusTransitions ==
    [][\/ /\ Len(pools') >= Len(pools)
          /\ \A i \in PoolIndexes : StatusMove(pools[i], pools'[i], lastResult'.op)
       \/ /\ lastResult'.op = "exitPool"
          /\ \E k \in PoolIndexes : Statuses(pools') = RemoveAt(Statuses(pools), k)]_vars

\* A driver has just accepted a full pool and was told that it is confirmed: the
\* pool went from PENDING to CONFIRMED in one step.
C17_Witness ==
    /\ lastResult.op = "assignDriver"
    /\ HasTarget(lastResult.poolId)
    /\ Message(lastResult) = MsgDriverConfirmed(Target(lastResult.poolId).destination)
    /\ Target(lastResult.poolId).status = "CONFIRMED"

\* C18: when only the operations of the public interface are called, with the one
\* hardcoded current user and an empty store at the start, every stored pool has at
\* most one passenger, so no pool is ever CONFIRMED.
C18_SingleUserNeverConfirms ==
    \A i \in PoolIndexes :
        /\ Len(pools[i].passengers) <= 1
        /\ \A k \in 1..Len(pools[i].passengers) : pools[i].passengers[k] = Student123
        /\ pools[i].status # "CONFIRMED"

\* The hardcoded user has just been refused a second seat in a pool that the user
\* is the only passenger of and that a driver has accepted.
C18_Witness ==
    /\ lastResult.op = "joinPool"
    /\ Message(lastResult) = MsgAlreadyJoined
    /\ HasTarget(lastResult.poolId)
    /\ Target(lastResult.poolId).passengers = <<Student123>>
    /\ Target(lastResult.poolId).status = "ACCEPTED"

\* C19 as stated: every pool that getAvailablePoolsForStudent returns has at least
\* one free seat.
C19_ListedPoolsHaveOpenSeat ==
    LET listed == getAvailablePoolsForStudent(pools) IN
    \A i \in 1..Len(listed) : Len(listed[i].passengers) < listed[i].capacity

\* C19: every ACCEPTED pool that getAvailablePoolsForStudent returns has a free
\* seat; a returned pool without a free seat is PENDING and has no driver, and
\* joinPool answers that the pool is full only for a pool without a free seat.
C19_ListedFullOnlyPending ==
    LET listed == getAvailablePoolsForStudent(pools) IN
    /\ \A i \in 1..Len(listed) :
          /\ listed[i].status = "ACCEPTED" => ~IsFull(listed[i])
          /\ IsFull(listed[i]) => listed[i].status = "PENDING" /\ listed[i].driverId = Null
    /\ ( lastResult.op = "joinPool" /\ Message(lastResult) = MsgFull )
          => HasTarget(lastResult.poolId) /\ IsFull(Target(lastResult.poolId))

\* A user who is not a passenger has just been told that a pool is full, and the
\* student listing returns that pool: it is PENDING with four passengers.
C19_Witness ==
    /\ lastResult.op = "joinPool"
    /\ Message(lastResult) = MsgFull
    /\ HasTarget(lastResult.poolId)
    /\ ~IsPassenger(Target(lastResult.poolId), currentUser)
    /\ \E i \in 1..Len(getAvailablePoolsForStudent(pools)) :
          getAvailablePoolsForStudent(pools)[i] = Target(lastResult.poolId)

\* The position of the first pool of ps that carries the id.
FirstWithId(ps, id) ==
    CHOOSE i \in 1..Len(ps) :
        /\ ps[i].poolId = id
        /\ \A j \in 1..(i - 1) : ps[j].poolId # id

\* C20: a successful joinPool, exitPool or assignDriver on a pool id changes only
\* the first stored pool with that id: every other pool keeps all its fields and
\* its place among the others. In the target, joinPool and exitPool leave the
\* driver alone, assignDriver leaves the passengers alone, and exitPool leaves the
\* status alone unless the pool was CONFIRMED or is deleted.
C20_OnlyTargetChanges ==
    [][( /\ lastResult'.op \in {"joinPool", "exitPool", "assignDriver"}
         /\ Succeeded(lastResult') )
          => LET i == FirstWithId(pools, lastResult'.poolId)
                 op == lastResult'.op
             IN  IF Len(pools') = Len(pools)
                 THEN /\ \A j \in PoolIndexes \ {i} : pools'[j] = pools[j]
                      /\ pools'[i].poolId = pools[i].poolId
                      /\ op \in {"joinPool", "exitPool"}
                            => /\ pools'[i].driverId = pools[i].driverId
                               /\ pools'[i].driverName = pools[i].driverName
                      /\ op = "assignDriver" => pools'[i].passengers = pools[i].passengers
                      /\ (op = "exitPool" /\ pools[i].status # "CONFIRMED")
                            => pools'[i].status = pools[i].status
                 ELSE /\ op = "exitPool"
                      /\ pools' = RemoveAt(pools, i)]_vars

\* A driver has just accepted the first of two stored pools that carry the same
\* id; the second one still has no driver.
C20_Witness ==
    /\ lastResult.op = "assignDriver"
    /\ Succeeded(lastResult)
    /\ \E j \in PoolIndexes :
          /\ j > FirstWithId(pools, lastResult.poolId)
          /\ pools[j].poolId = lastResult.poolId
          /\ pools[j].driverId = Null
          /\ pools[j].status = "PENDING"

====
